---- MODULE Spec2Model ----
(***************************************************************************)
(* Model of 02_prompt_chaining_langgraph.py: a script that builds a chat   *)
(* model client at import time and whose entrypoint main runs two tasks,   *)
(* each sending one fixed prompt to the client, then prints and returns    *)
(* the two response contents.                                              *)
(*                                                                         *)
(* Strings are sequences of one-character strings, so that concatenation,  *)
(* order and separators are computed and not assumed.  Every variable is   *)
(* indexed by a run (one execution of the script); runs share nothing.     *)
(***************************************************************************)
EXTENDS Integers, Sequences, FiniteSets

VARIABLES
    apiKey,        \* os.getenv("GEMINI_API_KEY") as seen on line 7
    input,         \* the argument of main (line 18)
    pc,            \* where the script is: "l7", "l19_call", "l19_result",
                   \* "l20_call", "l20_result", "l21", "l22", and the ends
                   \* "returned", "raised", "import_failed"; "off" = not run
    startupError,  \* lines 6-7 raised
    task1, task2,  \* the futures of task1() and task2(): state and content
    task1_result,  \* the local of line 19
    task2_result,  \* the local of line 20
    callLog,       \* the model.invoke calls made, in order, with their outcome
    stdout,        \* the lines printed
    retval         \* what main returned

vars == <<apiKey, input, pc, startupError, task1, task2,
          task1_result, task2_result, callLog, stdout, retval>>

(* ------------------------------ bounds -------------------------------- *)

\* Longest response content the model client returns in the model.
MaxLen == 2

\* Characters of a response content; the space is the separator character.
Chars == {"a", " "}

Contents == UNION {[1..n -> Chars] : n \in 0..MaxLen}

\* Two executions of the script, enough to compare runs pairwise.
Runs == {1, 2}

\* Values of the entrypoint's argument: "HHH" is the one __main__ passes,
\* "up" is a value that happens to occur in the text of prompt A.
Inputs == {<<"H", "H", "H">>, <<"u", "p">>}

\* os.getenv("GEMINI_API_KEY"): None when the variable is absent.
NoKey == "None"
ApiKeys == {NoKey, "key"}

(* ------------------------- constants of the code ---------------------- *)

\* "What is up?"
task1Prompt == <<"W", "h", "a", "t", " ", "i", "s", " ", "u", "p", "?">>

\* "Hello there, how are you?"
task2Prompt == <<"H", "e", "l", "l", "o", " ", "t", "h", "e", "r", "e", ",",
                 " ", "h", "o", "w", " ", "a", "r", "e", " ", "y", "o", "u", "?">>

\* "Task 1: "
PrintHead == <<"T", "a", "s", "k", " ", "1", ":", " ">>

\* ", Task 2: "
PrintMid == <<",", " ", "T", "a", "s", "k", " ", "2", ":", " ">>

(* ------------------------------ helpers ------------------------------- *)

\* An optional value: <<>> is "no value", <<v>> holds v.
NoValue == <<>>
Some(v) == <<v>>

IdleTask == [state |-> "idle", content |-> <<>>]

\* f"{task1_result.content} {task2_result.content}"
FormatReturnSwapped(a, b) == b \o <<" ">> \o a
FormatReturn(a, b) == a \o <<" ">> \o b

\* f"Task 1: {task1_result.content}, Task 2: {task2_result.content}"
FormatPrintSwapped(a, b) == PrintHead \o b \o PrintMid \o a
FormatPrint(a, b) == PrintHead \o a \o PrintMid \o b

\* What ChatGoogleGenerativeAI(..., api_key=key) can do.  The script makes no
\* check of its own: with a key the client is built; with None the outcome is
\* the library's (it raises when it finds no credential at all, and builds a
\* client when it finds one elsewhere).
ModelCtorOutcomes(key) == IF key = NoKey THEN {"ok", "raise"} ELSE {"ok"}

\* What model.invoke(prompt) can do: a response with some content, or raise.
InvokeOutcomes ==
    [ok : {TRUE}, content : Contents] \cup [ok : {FALSE}, content : {<<>>}]

(* ------------------------------ actions ------------------------------- *)

\* Lines 6-7 raise: the import fails and line 25 is never reached.
StartupFails(r) ==
    /\ pc' = [pc EXCEPT ![r] = "import_failed"]
    /\ startupError' = [startupError EXCEPT ![r] = TRUE]

\* Lines 6-7: load_dotenv() and the construction of the module-level model;
\* on success the script goes on to main.invoke (lines 24-25).
LoadModelIgnoringError(r) ==
    /\ pc[r] = "l7"
    /\ \E o \in ModelCtorOutcomes(apiKey[r]) :
         /\ pc' = [pc EXCEPT ![r] = "l19_call"]
         /\ startupError' = [startupError EXCEPT ![r] = (o = "raise")]
    /\ UNCHANGED <<apiKey, input, task1, task2, task1_result, task2_result,
                   callLog, stdout, retval>>
LoadModel(r) ==
    /\ pc[r] = "l7"
    /\ \E o \in ModelCtorOutcomes(apiKey[r]) :
         IF o = "raise"
         THEN StartupFails(r)
         ELSE /\ pc' = [pc EXCEPT ![r] = "l19_call"]
              /\ UNCHANGED startupError
    /\ UNCHANGED <<apiKey, input, task1, task2, task1_result, task2_result,
                   callLog, stdout, retval>>

\* Line 19, task1(): the task is submitted and a future is returned.
CallTask1(r) ==
    /\ pc[r] = "l19_call"
    /\ task1' = [task1 EXCEPT ![r] = [state |-> "pending", content |-> <<>>]]
    /\ pc' = [pc EXCEPT ![r] = "l19_result"]
    /\ UNCHANGED <<apiKey, input, startupError, task2, task1_result,
                   task2_result, callLog, stdout, retval>>

\* The body of a task: one model.invoke(prompt), whose response or exception
\* becomes the outcome of the task's future.
Invoke(log, prompt, o) == Append(log, [prompt |-> prompt, ok |-> o.ok, content |-> o.content])
Settled(o) == [state |-> IF o.ok THEN "done" ELSE "failed", content |-> o.content]

\* Lines 9-11, the body of task1.
RunTask1WithInput(r) ==
    /\ task1[r].state = "pending"
    /\ \E o \in InvokeOutcomes :
         /\ callLog' = [callLog EXCEPT ![r] = Invoke(@, task1Prompt \o input[r], o)]
         /\ task1' = [task1 EXCEPT ![r] = Settled(o)]
    /\ UNCHANGED <<apiKey, input, pc, startupError, task2, task1_result,
                   task2_result, stdout, retval>>
RunTask1Retrying(r) ==
    /\ task1[r].state = "pending"
    /\ \E o \in InvokeOutcomes :
         /\ callLog' = [callLog EXCEPT ![r] = Invoke(@, task1Prompt, o)]
         /\ task1' = [task1 EXCEPT ![r] =
                        IF ~o.ok /\ Len(callLog[r]) = 0
                        THEN [state |-> "pending", content |-> <<>>]
                        ELSE Settled(o)]
    /\ UNCHANGED <<apiKey, input, pc, startupError, task2, task1_result,
                   task2_result, stdout, retval>>
RunTask1(r) ==
    /\ task1[r].state = "pending"
    /\ \E o \in InvokeOutcomes :
         /\ callLog' = [callLog EXCEPT ![r] = Invoke(@, task1Prompt, o)]
         /\ task1' = [task1 EXCEPT ![r] = Settled(o)]
    /\ UNCHANGED <<apiKey, input, pc, startupError, task2, task1_result,
                   task2_result, stdout, retval>>

\* Line 19, .result(): blocks until task1 has settled, then yields its
\* response or re-raises its exception out of main.
Result1NoWait(r) ==
    /\ pc[r] = "l19_result"
    /\ task1_result' = [task1_result EXCEPT ![r] = Some(task1[r].content)]
    /\ pc' = [pc EXCEPT ![r] = "l20_call"]
    /\ UNCHANGED <<apiKey, input, startupError, task1, task2, task2_result,
                   callLog, stdout, retval>>
Result1Swallow(r) ==
    /\ pc[r] = "l19_result"
    /\ task1[r].state \in {"done", "failed"}
    /\ task1_result' = [task1_result EXCEPT ![r] = Some(task1[r].content)]
    /\ pc' = [pc EXCEPT ![r] = "l20_call"]
    /\ UNCHANGED <<apiKey, input, startupError, task1, task2, task2_result,
                   callLog, stdout, retval>>
Result1(r) ==
    /\ pc[r] = "l19_result"
    /\ task1[r].state \in {"done", "failed"}
    /\ IF task1[r].state = "done"
       THEN /\ task1_result' = [task1_result EXCEPT ![r] = Some(task1[r].content)]
            /\ pc' = [pc EXCEPT ![r] = "l20_call"]
       ELSE /\ pc' = [pc EXCEPT ![r] = "raised"]
            /\ UNCHANGED task1_result
    /\ UNCHANGED <<apiKey, input, startupError, task1, task2, task2_result,
                   callLog, stdout, retval>>

\* Line 20, task2(): the second task is submitted.
CallTask2(r) ==
    /\ pc[r] = "l20_call"
    /\ task2' = [task2 EXCEPT ![r] = [state |-> "pending", content |-> <<>>]]
    /\ pc' = [pc EXCEPT ![r] = "l20_result"]
    /\ UNCHANGED <<apiKey, input, startupError, task1, task1_result,
                   task2_result, callLog, stdout, retval>>

\* Lines 13-15, the body of task2.
RunTask2(r) ==
    /\ task2[r].state = "pending"
    /\ \E o \in InvokeOutcomes :
         /\ callLog' = [callLog EXCEPT ![r] = Invoke(@, task2Prompt, o)]
         /\ task2' = [task2 EXCEPT ![r] = Settled(o)]
    /\ UNCHANGED <<apiKey, input, pc, startupError, task1, task1_result,
                   task2_result, stdout, retval>>

\* Line 20, .result(): blocks until task2 has settled.
Result2NoWait(r) ==
    /\ pc[r] = "l20_result"
    /\ task2_result' = [task2_result EXCEPT ![r] = Some(task2[r].content)]
    /\ pc' = [pc EXCEPT ![r] = "l21"]
    /\ UNCHANGED <<apiKey, input, startupError, task1, task2, task1_result,
                   callLog, stdout, retval>>
Result2Swallow(r) ==
    /\ pc[r] = "l20_result"
    /\ task2[r].state \in {"done", "failed"}
    /\ task2_result' = [task2_result EXCEPT ![r] = Some(task2[r].content)]
    /\ pc' = [pc EXCEPT ![r] = "l21"]
    /\ UNCHANGED <<apiKey, input, startupError, task1, task2, task1_result,
                   callLog, stdout, retval>>
Result2(r) ==
    /\ pc[r] = "l20_result"
    /\ task2[r].state \in {"done", "failed"}
    /\ IF task2[r].state = "done"
       THEN /\ task2_result' = [task2_result EXCEPT ![r] = Some(task2[r].content)]
            /\ pc' = [pc EXCEPT ![r] = "l21"]
       ELSE /\ pc' = [pc EXCEPT ![r] = "raised"]
            /\ UNCHANGED task2_result
    /\ UNCHANGED <<apiKey, input, startupError, task1, task2, task1_result,
                   callLog, stdout, retval>>

\* Line 21: print(...).
printTwice(r) ==
    /\ pc[r] = "l21"
    /\ stdout' = [stdout EXCEPT ![r] =
                    @ \o << FormatPrint(task1_result[r][1], task2_result[r][1]),
                            FormatPrint(task1_result[r][1], task2_result[r][1]) >>]
    /\ pc' = [pc EXCEPT ![r] = "l22"]
    /\ UNCHANGED <<apiKey, input, startupError, task1, task2, task1_result,
                   task2_result, callLog, retval>>
print(r) ==
    /\ pc[r] = "l21"
    /\ stdout' = [stdout EXCEPT ![r] =
                    Append(@, FormatPrint(task1_result[r][1], task2_result[r][1]))]
    /\ pc' = [pc EXCEPT ![r] = "l22"]
    /\ UNCHANGED <<apiKey, input, startupError, task1, task2, task1_result,
                   task2_result, callLog, retval>>

\* Line 22: return ...
Return(r) ==
    /\ pc[r] = "l22"
    /\ retval' = [retval EXCEPT ![r] =
                    Some(FormatReturn(task1_result[r][1], task2_result[r][1]))]
    /\ pc' = [pc EXCEPT ![r] = "returned"]
    /\ UNCHANGED <<apiKey, input, startupError, task1, task2, task1_result,
                   task2_result, callLog, stdout>>

(* --------------------------- specifications --------------------------- *)

Fresh(started) ==
    /\ pc = [r \in Runs |-> IF r \in started THEN "l7" ELSE "off"]
    /\ startupError = [r \in Runs |-> FALSE]
    /\ task1 = [r \in Runs |-> IdleTask]
    /\ task2 = [r \in Runs |-> IdleTask]
    /\ task1_result = [r \in Runs |-> NoValue]
    /\ task2_result = [r \in Runs |-> NoValue]
    /\ callLog = [r \in Runs |-> <<>>]
    /\ stdout = [r \in Runs |-> <<>>]
    /\ retval = [r \in Runs |-> NoValue]

\* One execution of the script; the other run is never started.
Init ==
    /\ apiKey \in [Runs -> ApiKeys]
    /\ input \in [Runs -> Inputs]
    /\ apiKey[2] = "key" /\ input[2] = <<"H", "H", "H">>
    /\ Fresh({1})

\* Two executions that differ only in the value of input.
InitPair ==
    /\ apiKey \in [Runs -> ApiKeys]
    /\ input \in [Runs -> Inputs]
    /\ apiKey[1] = apiKey[2]
    /\ input[1] = <<"H", "H", "H">> /\ input[2] # input[1]
    /\ Fresh(Runs)

Next ==
    \E r \in Runs :
        \/ LoadModel(r)
        \/ CallTask1(r)
        \/ RunTask1(r)
        \/ Result1(r)
        \/ CallTask2(r)
        \/ RunTask2(r)
        \/ Result2(r)
        \/ print(r)
        \/ Return(r)

Spec == Init /\ [][Next]_vars

SpecPair == InitPair /\ [][Next]_vars

(* --------------------- what a run did, read off its state ------------- *)

Min(a, b) == IF a <= b THEN a ELSE b

\* s occurs in t as a contiguous piece.
IsSubstring(s, t) ==
    \E i \in 0..(Len(t) - Len(s)) : SubSeq(t, i + 1, i + Len(s)) = s

\* The positions of the calls that sent prompt p to the model client.
CallsWith(r, p) == {i \in 1..Len(callLog[r]) : callLog[r][i].prompt = p}

\* The content of the response the model client gave to prompt p.
ContentFor(r, p) == callLog[r][CHOOSE i \in CallsWith(r, p) : TRUE].content

RespA(r) == ContentFor(r, task1Prompt)
RespB(r) == ContentFor(r, task2Prompt)

AnyCallFailed(r) == \E i \in 1..Len(callLog[r]) : ~callLog[r][i].ok

\* Both model calls returned a response.
BothSucceeded(r) ==
    /\ \E i \in CallsWith(r, task1Prompt) : callLog[r][i].ok
    /\ \E i \in CallsWith(r, task2Prompt) : callLog[r][i].ok

(* ------------------------------- claims ------------------------------- *)

\* C1: when main has returned, the returned value is response A's content,
\* one space, response B's content, A being the response to "What is up?" and
\* B the response to "Hello there, how are you?"; no value is returned before.
C1_ReturnIsASpaceB ==
    \A r \in Runs :
        /\ pc[r] = "returned" =>
             /\ BothSucceeded(r)
             /\ retval[r] = << RespA(r) \o <<" ">> \o RespB(r) >>
        /\ pc[r] # "returned" => retval[r] = <<>>

C1_Witness ==
    \E r \in Runs :
        /\ pc[r] = "returned"
        /\ RespA(r) = <<"a">> /\ RespB(r) = <<" ", "a">>
        /\ retval[r] = << <<"a", " ", " ", "a">> >>

\* C2: once a model call has failed, nothing is printed and nothing is
\* returned in that run, and main ends by raising: the run is either still
\* blocked in the .result() of the failed task or has raised.
C2_FailurePrintsNothing ==
    \A r \in Runs :
        AnyCallFailed(r) =>
            /\ stdout[r] = <<>>
            /\ retval[r] = <<>>
            /\ \/ pc[r] = "raised"
               \/ pc[r] = "l19_result" /\ task1[r].state = "failed"
               \/ pc[r] = "l20_result" /\ task2[r].state = "failed"

C2_Witness ==
    \E r \in Runs :
        /\ pc[r] = "raised"
        /\ Len(callLog[r]) = 2
        /\ callLog[r][1].ok /\ callLog[r][1].content = <<"a">>
        /\ ~callLog[r][2].ok
        /\ stdout[r] = <<>>

\* C3: a successful run writes exactly one line, "Task 1: " + A's content +
\* ", Task 2: " + B's content; the line is on standard output while main has
\* not yet returned (line 22), and nothing is written before line 21.
C3_OneLinePrinted ==
    \A r \in Runs :
        /\ pc[r] \in {"l22", "returned"} =>
             stdout[r] = << PrintHead \o RespA(r) \o PrintMid \o RespB(r) >>
        /\ pc[r] = "l22" => retval[r] = <<>>
        /\ pc[r] \notin {"l22", "returned"} => stdout[r] = <<>>

C3_Witness ==
    \E r \in Runs :
        /\ pc[r] = "l22"
        /\ RespA(r) = <<"a", " ">> /\ RespB(r) = <<"a">>
        /\ Len(stdout[r]) = 1
        /\ retval[r] = <<>>

\* C4 as stated: the printed line contains A's content, a single space, B's
\* content.
C4_Original ==
    \A r \in Runs :
        pc[r] \in {"l22", "returned"} =>
            IsSubstring(RespA(r) \o <<" ">> \o RespB(r), stdout[r][1])

\* C4 amended: the printed line contains A's content, then ", Task 2: ", then
\* B's content, in that order with that separator; the single-space form is
\* the returned string's.
C4_PrintedLineSeparator ==
    \A r \in Runs :
        /\ pc[r] \in {"l22", "returned"} =>
             /\ IsSubstring(RespA(r) \o PrintMid \o RespB(r), stdout[r][1])
             /\ Len(stdout[r][1]) =
                  Len(PrintHead) + Len(RespA(r)) + Len(PrintMid) + Len(RespB(r))
        /\ pc[r] = "returned" =>
             /\ IsSubstring(RespA(r) \o <<" ">> \o RespB(r), retval[r][1])
             /\ Len(retval[r][1]) = Len(RespA(r)) + 1 + Len(RespB(r))

C4_Witness ==
    \E r \in Runs :
        /\ pc[r] = "returned"
        /\ RespA(r) = <<"a">> /\ RespB(r) = <<"a", "a">>
        /\ ~IsSubstring(<<"a", " ", "a", "a">>, stdout[r][1])

\* C5: of two runs that differ only in input, the prompts sent are the same
\* two fixed texts, and when the model client gave both runs the same
\* responses, two runs at the same point have printed and returned the same.
SameResponses ==
    /\ Len(callLog[1]) = Len(callLog[2])
    /\ \A i \in 1..Len(callLog[1]) :
         /\ callLog[1][i].ok = callLog[2][i].ok
         /\ callLog[1][i].content = callLog[2][i].content

C5_IndependentOfInput ==
    /\ \A r \in Runs : \A i \in 1..Len(callLog[r]) :
         callLog[r][i].prompt \in {task1Prompt, task2Prompt}
    /\ \A i \in 1..Min(Len(callLog[1]), Len(callLog[2])) :
         callLog[1][i].prompt = callLog[2][i].prompt
    /\ (SameResponses /\ pc[1] = pc[2]) =>
         /\ stdout[1] = stdout[2]
         /\ retval[1] = retval[2]

C5_Witness ==
    /\ input[1] # input[2]
    /\ input[2] = <<"u", "p">>
    /\ pc[1] = "returned" /\ pc[2] = "returned"
    /\ SameResponses
    /\ callLog[1][1].content = <<"a">>
    /\ retval[1] = retval[2]

\* C6 as stated: with GEMINI_API_KEY absent the script fails at startup and
\* no model call is made.
C6_Original ==
    \A r \in Runs :
        (apiKey[r] = NoKey /\ pc[r] \notin {"off", "l7"}) =>
            /\ pc[r] = "import_failed"
            /\ callLog[r] = <<>>

\* C6 amended: the script does not test the key; it passes it to the client
\* constructor, and when that constructor raises the script stops at startup:
\* no task is submitted, no model call is made, nothing is printed.
C6_CtorFailureStopsStartup ==
    \A r \in Runs :
        startupError[r] =>
            /\ pc[r] = "import_failed"
            /\ task1[r].state = "idle" /\ task2[r].state = "idle"
            /\ callLog[r] = <<>>
            /\ stdout[r] = <<>> /\ retval[r] = <<>>

C6_Witness ==
    \E r \in Runs :
        /\ apiKey[r] = NoKey
        /\ startupError[r]
        /\ pc[r] = "import_failed"

\* C7: task2 is never initiated unless task1 has been, and whenever something
\* has been printed or returned both tasks have completed (none is pending);
\* the printed line holds task1's content before task2's.
C7_JoinBeforeOutput ==
    \A r \in Runs :
        /\ task2[r].state # "idle" => task1[r].state # "idle"
        /\ (stdout[r] # <<>> \/ retval[r] # <<>>) =>
             /\ task1[r].state = "done" /\ task2[r].state = "done"
             /\ stdout[r][1] =
                  PrintHead \o task1[r].content \o PrintMid \o task2[r].content

C7_Witness ==
    \E r \in Runs :
        /\ stdout[r] # <<>> /\ retval[r] # <<>>
        /\ task1[r].state = "done" /\ task2[r].state = "done"
        /\ task1[r].content # task2[r].content

\* C8: each prompt is sent at most once in a run, a failed call is the last
\* call of its run, and a run with a failed call has printed and returned
\* nothing.
C8_NoRetry ==
    \A r \in Runs :
        /\ Cardinality(CallsWith(r, task1Prompt)) <= 1
        /\ Cardinality(CallsWith(r, task2Prompt)) <= 1
        /\ \A i \in 1..Len(callLog[r]) :
             ~callLog[r][i].ok =>
                 /\ i = Len(callLog[r])
                 /\ pc[r] \notin {"l21", "l22", "returned"}
                 /\ stdout[r] = <<>> /\ retval[r] = <<>>

C8_Witness ==
    \E r \in Runs :
        /\ pc[r] = "raised"
        /\ Len(callLog[r]) = 1
        /\ ~callLog[r][1].ok
        /\ callLog[r][1].prompt = task1Prompt

\* C9: the two calls are never in flight together, and task2 is initiated
\* only when task1 has completed and main holds its result.
C9_StrictlySequential ==
    \A r \in Runs :
        /\ ~(task1[r].state = "pending" /\ task2[r].state = "pending")
        /\ task2[r].state # "idle" =>
             /\ task1[r].state = "done"
             /\ task1_result[r] = << task1[r].content >>

C9_Witness ==
    \E r \in Runs :
        /\ task2[r].state = "pending"
        /\ task1[r].state = "done"
        /\ task1[r].content = <<"a", " ">>

\* C10: when the call for prompt A failed, prompt B is never sent; a run
\* with a failure made one call (A, failed) or two (A succeeded, B failed).
C10_NoBAfterFailedA ==
    \A r \in Runs :
        /\ task1[r].state = "failed" =>
             /\ task2[r].state = "idle"
             /\ CallsWith(r, task2Prompt) = {}
        /\ \A i \in CallsWith(r, task2Prompt) :
             \E j \in CallsWith(r, task1Prompt) : j < i /\ callLog[r][j].ok
        /\ AnyCallFailed(r) =>
             \/ /\ Len(callLog[r]) = 1
                /\ callLog[r][1].prompt = task1Prompt /\ ~callLog[r][1].ok
             \/ /\ Len(callLog[r]) = 2
                /\ callLog[r][1].prompt = task1Prompt /\ callLog[r][1].ok
                /\ callLog[r][2].prompt = task2Prompt /\ ~callLog[r][2].ok

C10_Witness ==
    \E r \in Runs :
        /\ pc[r] = "raised"
        /\ task1[r].state = "failed"
        /\ task2[r].state = "idle"
        /\ Len(callLog[r]) = 1

====
